---- MODULE Spec2Model ----
(***************************************************************************)
(* A model of the trading application: the bar aggregator and simulated   *)
(* feed of IBClient (ib_client.py), the indicator evaluation and the      *)
(* execution gate of TradingLogic (trading_logic.py), and the orders the  *)
(* gate places through IBClient.place_order.                              *)
(*                                                                         *)
(* Prices are integers (a fixed-point scale of the floats of the code),   *)
(* timestamps are whole seconds read from one non-decreasing clock `now`  *)
(* (datetime.now()).  Rounding of floating point is not modelled.         *)
(***************************************************************************)
EXTENDS Integers, Sequences, FiniteSets

VARIABLES
    \* ---- IBClient (ib_client.py:15-38)
    simulation_mode,    \* self.simulation_mode
    connected,          \* self.connected
    price_data,         \* self.price_data : the bar history
    current_bar,        \* self.current_bar
    sim_price,          \* self._sim_price
    handlers,           \* number of on_price_update closures on pendingTickersEvent
    pending,            \* payloads of the emitted event still to be handed to a handler
    now,                \* the wall clock, datetime.now() and time.time()
    last_connection_attempt,  \* self._last_connection_attempt
    \* ---- TradingLogic (trading_logic.py:10-15)
    active, symbol, quantity, position, last_signal,
    \* ---- results and call records
    signal,             \* the value last returned by calculate_signal
    call,               \* the arguments of the last execute_signal call
    placed,             \* the place_order calls made so far, in order
    orders,             \* self.orders : order id -> order entry
    journal,            \* self.trade_journal.trades
    submitted,          \* the orders handed to the broker by ib.placeOrder
    reports,            \* the broker's later reports on submitted orders
    \* ---- RiskManager (risk_manager.py:9-13)
    daily_pnl,          \* self.daily_pnl
    \* ---- history (ghost) variables, read only by the properties
    bar_ticks,          \* the ticks ingested into the current bar, in order
    tick_times,         \* [first, last, n, strict, daygap] of the ingested ticks
    emitted,            \* number of events emitted so far
    advances,           \* number of clock advances so far
    conn_call,          \* the record of the last detailed connect call
    started,            \* the arguments of the start_trading calls made so far
    visited,            \* the (active, side) combinations the gate has been in
    scenario            \* the end-to-end scenario: ticks fed and the first price

vars == << simulation_mode, connected, price_data, current_bar, sim_price,
           handlers, pending, now, active, symbol, quantity, position,
           last_signal, signal, call, placed, orders, journal, submitted,
           reports, daily_pnl, bar_ticks, tick_times, emitted, advances,
           started, visited, scenario, last_connection_attempt, conn_call >>

clientVars == << simulation_mode, connected, price_data, current_bar, sim_price,
                 handlers, pending, now >>
gateVars   == << active, symbol, quantity, position, last_signal >>
tradeVars  == << call, placed, orders, journal, submitted, reports >>
gateGhost  == << started, visited >>
riskVars   == << daily_pnl >>
connVars   == << last_connection_attempt, conn_call >>
feedGhost  == << bar_ticks, tick_times, emitted, advances >>

----------------------------------------------------------------------------
(* Values *)

None == -1                      \* Python's None in a numeric field
NoSignal == "None"              \* Python's None where a signal is expected
BarInterval == 60               \* seconds per bar
DaySeconds == 24 * 60 * 60      \* timedelta normalises to (days, seconds)
SimStartPrice == 100
MinBars == 50                   \* bars calculate_signal needs
ShortWindow == 20
LongWindow == 50
RocPeriods == 10
FirstOrderId == 1               \* the first order id the broker hands out

Prices == {98, 102}             \* tick and simulated prices
Sizes == {1, 2}                 \* tick sizes
SimVolumes == {1000}            \* int(np.random.normal(1000, 200)), one draw
Margins == {0, 1}               \* sim_price * abs(np.random.normal(0, 0.001))
Deltas == {30, 90, DaySeconds}  \* seconds between two steps

MaxHandlers == 2                \* subscriptions made on a live client
MaxEmitted == 3                 \* events emitted by the broker feed
MaxAdvances == 3                \* clock advances on a simulated client
MaxHistory == 51                \* bars of an evaluated history
MaxScenarioTicks == 61          \* ticks fed by the end-to-end scenario
MaxCalls == 3                   \* calls of execute_signal

Max(a, b) == IF a >= b THEN a ELSE b
Min(a, b) == IF a <= b THEN a ELSE b

\* (t1 - t0).seconds : the seconds field of a timedelta, days dropped
Seconds(delta) == delta % DaySeconds

EmptyBar ==
    [open |-> None, high |-> None, low |-> None, close |-> None,
     volume |-> 0, timestamp |-> None]

NoTicks == [first |-> None, last |-> None, n |-> 0, strict |-> TRUE, daygap |-> FALSE]

NoCall == [seq |-> 0, signal |-> NoSignal, position |-> 0, active |-> FALSE,
           bars |-> 0, error |-> FALSE]

NoConnect == [seq |-> 0, success |-> FALSE, throttled |-> FALSE, tested |-> FALSE,
              attempts |-> 0, sessions |-> 0]

NoStart == [symbol |-> "None", quantity |-> None, quantities |-> {}]

NoScenario == [n |-> 0, first |-> None, size |-> 0, step |-> 0]

\* A float of the indicator arithmetic is a fraction [num, den] with den >= 0:
\* den = 0 stands for the non-finite values, NaN (num = 0), inf (num > 0) and
\* -inf (num < 0).
NaN == [num |-> 0, den |-> 0]

\* the indicator row of a call that computed none, and the record of no call
NoRow == [SMA20 |-> NaN, SMA50 |-> NaN, ROC |-> NaN]
NotEvaluated == [value |-> NoSignal, bars |-> None, row |-> NoRow, replayed |-> FALSE]

----------------------------------------------------------------------------
(* The bar aggregator: IBClient.subscribe_market_data.on_price_update *)

\* mutants of the boundary test: no elapsed-time test; half the interval;
\* the interval has to be exceeded
NewBarDueAlways(bar, current_time) == TRUE

NewBarDueStrict(bar, current_time) ==
    IF bar.timestamp = None
      THEN TRUE
      ELSE Seconds(current_time - bar.timestamp) > BarInterval

NewBarDueHalfInterval(bar, current_time) ==
    IF bar.timestamp = None
      THEN TRUE
      ELSE Seconds(current_time - bar.timestamp) >= BarInterval \div 2

\* the boundary test of on_price_update
NewBarDue(bar, current_time) ==
    IF bar.timestamp = None
      THEN TRUE
      ELSE Seconds(current_time - bar.timestamp) >= BarInterval

\* the bar opened by a boundary tick
OpenBar(price, size, current_time) ==
    [open |-> price, high |-> price, low |-> price, close |-> price,
     volume |-> size, timestamp |-> current_time]

\* mutant of the update: the volume is overwritten, not accumulated
UpdateBarVolumeOverwritten(bar, price, size) ==
    [bar EXCEPT !.high = Max(@, price), !.low = Min(@, price),
                !.close = price, !.volume = size]

\* the in-place update of the current bar
UpdateBar(bar, price, size) ==
    [bar EXCEPT !.high = Max(@, price), !.low = Min(@, price),
                !.close = price, !.volume = @ + size]

\* mutant of the sealing: the bar is inserted at the front
SealedAtFront(history, bar) ==
    IF bar.timestamp # None THEN << bar >> \o history ELSE history

\* the history after sealing: a copy of the current bar is appended, if one is open
Sealed(history, bar) ==
    IF bar.timestamp # None THEN Append(history, bar) ELSE history

\* ghost: the record of ingested tick times after a tick at time t
Ingested(tt, t) ==
    IF tt.n = 0
      THEN [first |-> t, last |-> t, n |-> 1, strict |-> TRUE, daygap |-> FALSE]
      ELSE [tt EXCEPT !.last = t, !.n = @ + 1,
                      !.strict = @ /\ t > tt.last,
                      !.daygap = @ \/ t - tt.last >= DaySeconds]

\* one call of the handler with the payload at the head of the emitted event
on_price_update ==
    /\ pending # <<>>
    /\ LET trade == Head(pending)
           current_time == now
           price == trade.price
           size == trade.size
       IN  /\ IF NewBarDue(current_bar, current_time)
                THEN /\ price_data' = Sealed(price_data, current_bar)
                     /\ current_bar' = OpenBar(price, size, current_time)
                     /\ bar_ticks' = << trade >>
                ELSE /\ current_bar' = UpdateBar(current_bar, price, size)
                     /\ price_data' = price_data
                     /\ bar_ticks' = Append(bar_ticks, trade)
           /\ tick_times' = Ingested(tick_times, current_time)
    /\ pending' = Tail(pending)
    /\ UNCHANGED << simulation_mode, connected, sim_price, handlers, now,
                    gateVars, gateGhost, riskVars, connVars, signal, tradeVars, emitted, advances, scenario >>

\* d seconds after the previous step ib_insync emits pendingTickersEvent: every
\* registered handler is handed the payload
EmitTick(d, price, size) ==
    /\ ~simulation_mode
    /\ connected
    /\ handlers > 0
    /\ pending = <<>>
    /\ emitted < MaxEmitted
    /\ now' = now + d
    /\ pending' = [i \in 1..handlers |-> [price |-> price, size |-> size]]
    /\ emitted' = emitted + 1
    /\ UNCHANGED << simulation_mode, connected, price_data, current_bar, sim_price,
                    handlers, gateVars, gateGhost, riskVars, connVars, signal, tradeVars,
                    bar_ticks, tick_times, advances, scenario >>

----------------------------------------------------------------------------
(* The simulated feed *)

\* the price after _generate_simulated_price's random walk step: 100.0 on an
\* empty history, otherwise the drawn price p
SimPrice(history, p) == IF history = <<>> THEN SimStartPrice ELSE p

\* the bar _generate_simulated_price returns; up, down are the draws
\* sim_price * abs(normal(0, 0.001)) and vol the drawn volume
SimBar(history, p, up, down, vol, current_time) ==
    [open |-> IF history # <<>> THEN history[Len(history)].close
                                ELSE SimPrice(history, p),
     high |-> SimPrice(history, p) + up,
     low |-> SimPrice(history, p) - down,
     close |-> SimPrice(history, p),
     volume |-> vol,
     timestamp |-> current_time]

\* update_simulated_data's test for a new bar
SimBarDue(history, current_time) ==
    IF history = <<>>
      THEN TRUE
      ELSE Seconds(current_time - history[Len(history)].timestamp) >= BarInterval

\* self.price_data.append(self._generate_simulated_price()), with its draws
\* at the time current_time that _generate_simulated_price reads
AppendSimBarAt(current_time) ==
    \E p \in Prices, up \in Margins, down \in Margins, vol \in SimVolumes :
        /\ sim_price' = SimPrice(price_data, p)
        /\ price_data' = Append(price_data,
                                SimBar(price_data, p, up, down, vol, current_time))

AppendSimBar == AppendSimBarAt(now)

update_simulated_data ==
    /\ IF simulation_mode /\ connected /\ SimBarDue(price_data, now)
         THEN AppendSimBar
         ELSE UNCHANGED << price_data, sim_price >>
    /\ UNCHANGED << simulation_mode, connected, current_bar, handlers, pending, now,
                    gateVars, gateGhost, riskVars, connVars, signal, tradeVars, feedGhost, scenario >>

\* d seconds pass between two calls made on a simulated client (on a live
\* client the clock is read by on_price_update alone, and EmitTick advances it)
Advance(d) ==
    /\ simulation_mode
    /\ advances < MaxAdvances
    /\ now' = now + d
    /\ advances' = advances + 1
    /\ UNCHANGED << simulation_mode, connected, price_data, current_bar, sim_price,
                    handlers, pending, gateVars, gateGhost, riskVars, connVars, signal, tradeVars,
                    bar_ticks, tick_times, emitted, scenario >>

\* subscribe_market_data: in simulation mode it seeds the history; on a live
\* client it registers one more on_price_update closure, unless qualifyContracts
\* or reqMktData raised (ok = FALSE)
subscribe_market_data(ok) ==
    /\ pending = <<>>
    /\ handlers < MaxHandlers
    /\ IF simulation_mode
         THEN /\ IF price_data = <<>>
                   THEN AppendSimBar
                   ELSE UNCHANGED << price_data, sim_price >>
              /\ UNCHANGED handlers
         ELSE /\ handlers' = IF ok THEN handlers + 1 ELSE handlers
              /\ UNCHANGED << price_data, sim_price >>
    /\ UNCHANGED << simulation_mode, connected, current_bar, pending, now,
                    gateVars, gateGhost, riskVars, connVars, signal, tradeVars, feedGhost, scenario >>

\* connect, abstracted to its effect on the flag: simulation mode always
\* connects, a live connect succeeds or leaves the flag as it was
connect(ok) ==
    /\ pending = <<>>
    /\ ~connected
    /\ simulation_mode \/ ok
    /\ connected' = TRUE
    /\ UNCHANGED << simulation_mode, price_data, current_bar, sim_price, handlers,
                    pending, now, gateVars, gateGhost, riskVars, connVars, signal, tradeVars, feedGhost, scenario >>

disconnect ==
    /\ pending = <<>>
    /\ connected
    /\ connected' = FALSE
    /\ UNCHANGED << simulation_mode, price_data, current_bar, sim_price, handlers,
                    pending, now, gateVars, gateGhost, riskVars, connVars, signal, tradeVars, feedGhost, scenario >>

----------------------------------------------------------------------------
(* The client and its feed *)

InitGate ==
    /\ active = FALSE
    /\ symbol = "None"
    /\ quantity = None
    /\ position = 0
    /\ last_signal = NoSignal
    /\ started = NoStart
    /\ daily_pnl = 0
    /\ last_connection_attempt = 0
    /\ conn_call = NoConnect
    /\ visited = {<< "Inactive", "Flat" >>}

InitClient ==
    /\ connected = FALSE
    /\ price_data = <<>>
    /\ current_bar = EmptyBar
    /\ sim_price = SimStartPrice
    /\ handlers = 0
    /\ pending = <<>>
    /\ now = 0

InitRest ==
    /\ signal = NotEvaluated
    /\ call = NoCall
    /\ placed = <<>>
    /\ orders = <<>>
    /\ journal = <<>>
    /\ submitted = <<>>
    /\ reports = {}
    /\ bar_ticks = <<>>
    /\ tick_times = NoTicks
    /\ emitted = 0
    /\ advances = 0
    /\ scenario = NoScenario

Init ==
    /\ simulation_mode \in BOOLEAN
    /\ InitClient
    /\ InitGate
    /\ InitRest

Next ==
    \/ on_price_update
    \/ \E d \in Deltas, price \in Prices, size \in Sizes : EmitTick(d, price, size)
    \/ \E d \in Deltas : Advance(d)
    \/ update_simulated_data
    \/ \E ok \in BOOLEAN : subscribe_market_data(ok)
    \/ \E ok \in BOOLEAN : connect(ok)
    \/ disconnect

Spec == Init /\ [][Next]_vars

----------------------------------------------------------------------------
(* The indicator evaluation: TradingLogic.calculate_signal *)

Zero == [num |-> 0, den |-> 1]

IsNaN(x) == x.den = 0 /\ x.num = 0

\* x > y on floats: every comparison with NaN is false
Greater(x, y) ==
    IF IsNaN(x) \/ IsNaN(y) THEN FALSE
    ELSE IF x.den = 0 THEN x.num > 0 /\ ~(y.den = 0 /\ y.num > 0)
    ELSE IF y.den = 0 THEN y.num < 0
    ELSE x.num * y.den > y.num * x.den

Less(x, y) == Greater(y, x)

\* three times the typical price (high + low + close) / 3 of a bar
TypicalPrice3(bar) == bar.high + bar.low + bar.close

RECURSIVE SumTypical3(_, _, _)
\* the sum of three times the typical prices of rows from .. to
SumTypical3(history, from, to) ==
    IF from > to THEN 0
    ELSE TypicalPrice3(history[from]) + SumTypical3(history, from + 1, to)

\* mutant of the rolling mean: the window reaches one row further back
RollingMeanOneRowMore(history, window) ==
    IF Len(history) < window THEN NaN
    ELSE LET from == Max(1, Len(history) - window)
         IN  [num |-> SumTypical3(history, from, Len(history)),
              den |-> 3 * (Len(history) - from + 1)]

\* df['typical_price'].rolling(window).mean() at the last row: NaN until the
\* window is full
RollingMean(history, window) ==
    IF Len(history) < window THEN NaN
    ELSE [num |-> SumTypical3(history, Len(history) - window + 1, Len(history)),
          den |-> 3 * window]

\* df['typical_price'].pct_change(periods) * 100 at the last row: NaN when
\* there is no row `periods` earlier, non-finite when that row's price is 0
PctChange100(history, periods) ==
    IF Len(history) <= periods THEN NaN
    ELSE LET last == TypicalPrice3(history[Len(history)])
             prev == TypicalPrice3(history[Len(history) - periods])
         IN  IF prev > 0 THEN [num |-> 100 * (last - prev), den |-> prev]
             ELSE IF prev < 0 THEN [num |-> 100 * (prev - last), den |-> 0 - prev]
             ELSE [num |-> IF last > 0 THEN 1 ELSE IF last < 0 THEN 0 - 1 ELSE 0,
                   den |-> 0]

\* df.iloc[-1] : the indicators of the last row
LastRow(history) ==
    [SMA20 |-> RollingMean(history, ShortWindow),
     SMA50 |-> RollingMean(history, LongWindow),
     ROC |-> PctChange100(history, RocPeriods)]

\* mutant of the signal rule: ties of the moving averages count as crossings
DeriveSignalTiesCount(last_row) ==
    IF ~Less(last_row.SMA20, last_row.SMA50) /\ Greater(last_row.ROC, Zero) THEN "BUY"
    ELSE IF ~Greater(last_row.SMA20, last_row.SMA50) /\ Less(last_row.ROC, Zero) THEN "SELL"
    ELSE NoSignal

\* the signal rule on the last row
DeriveSignal(last_row) ==
    IF Greater(last_row.SMA20, last_row.SMA50) /\ Greater(last_row.ROC, Zero) THEN "BUY"
    ELSE IF Less(last_row.SMA20, last_row.SMA50) /\ Less(last_row.ROC, Zero) THEN "SELL"
    ELSE NoSignal

\* mutant of the minimum-data guard: 50 bars are not yet enough
EnoughBarsOffByOne(history) == ~(Len(history) <= MinBars)

\* the minimum-data guard
EnoughBars(history) == ~(Len(history) < MinBars)

\* mutant of calculate_signal: a signal equal to the one returned last is
\* held back
calculate_signal_debounced(history) ==
    IF ~EnoughBars(history) THEN NoSignal
    ELSE IF DeriveSignal(LastRow(history)) = signal.value THEN NoSignal
    ELSE DeriveSignal(LastRow(history))

calculate_signal(history) ==
    IF ~EnoughBars(history) THEN NoSignal ELSE DeriveSignal(LastRow(history))

\* the last row calculate_signal computed, if it got that far
ComputedRow(history) ==
    IF ~EnoughBars(history) THEN NoRow ELSE LastRow(history)

\* a call of calculate_signal on the bar history; the record of the call
\* tells whether the same history had been evaluated by the call before
CalcSignal ==
    /\ signal' = [value |-> calculate_signal(price_data),
                  bars |-> Len(price_data),
                  row |-> ComputedRow(price_data),
                  replayed |-> signal.bars = Len(price_data)]
    /\ UNCHANGED << clientVars, gateVars, gateGhost, riskVars, connVars, tradeVars, feedGhost, scenario >>

\* the bars of the evaluated histories: [high, low, close]
Shapes ==
    { [high |-> 100, low |-> 100, close |-> 100],
      [high |-> 104, low |-> 99, close |-> 100],
      [high |-> 103, low |-> 101, close |-> 102] }

ShapeOf(bar) == [high |-> bar.high, low |-> bar.low, close |-> bar.close]

\* a sealed bar of the given shape enters the history; a history is a run of
\* one shape, followed by runs of shapes not used before
AppendBar(shape) ==
    /\ Len(price_data) < MaxHistory
    /\ \/ price_data = <<>>
       \/ price_data # <<>> /\ ShapeOf(price_data[Len(price_data)]) = shape
       \/ \A i \in 1..Len(price_data) : ShapeOf(price_data[i]) # shape
    /\ price_data' = Append(price_data,
                            [open |-> shape.close, high |-> shape.high,
                             low |-> shape.low, close |-> shape.close,
                             volume |-> 1,
                             timestamp |-> BarInterval * Len(price_data)])
    /\ signal' = NotEvaluated
    /\ UNCHANGED << simulation_mode, connected, current_bar, sim_price, handlers,
                    pending, now, gateVars, gateGhost, riskVars, connVars, tradeVars, feedGhost, scenario >>

InitSignal == Init /\ ~simulation_mode

NextSignal ==
    \/ \E shape \in Shapes : AppendBar(shape)
    \/ CalcSignal

SpecSignal == InitSignal /\ [][NextSignal]_vars

----------------------------------------------------------------------------
(* The end-to-end scenario: ticks one second apart with rising prices, fed  *)
(* to a connected live client with one subscription                         *)

Steps == {1, 2}                 \* price rise from one tick to the next

\* the next tick of the scenario is emitted, one second after the previous one,
\* its price one step above the previous price (a linear rise)
FeedTick ==
    /\ pending = <<>>
    /\ scenario.n < MaxScenarioTicks
    /\ now' = IF scenario.n = 0 THEN now ELSE now + 1
    /\ pending' = << [price |-> IF scenario.n = 0 THEN scenario.first
                                                   ELSE current_bar.close + scenario.step,
                      size |-> scenario.size] >>
    /\ scenario' = [scenario EXCEPT !.n = @ + 1]
    /\ UNCHANGED << simulation_mode, connected, price_data, current_bar, sim_price,
                    handlers, gateVars, gateGhost, riskVars, connVars, signal, tradeVars, feedGhost >>

InitScenario ==
    /\ simulation_mode = FALSE
    /\ connected = TRUE
    /\ price_data = <<>>
    /\ current_bar = EmptyBar
    /\ sim_price = SimStartPrice
    /\ handlers = 1
    /\ pending = <<>>
    /\ now = 0
    /\ InitGate
    /\ signal = NotEvaluated
    /\ call = NoCall
    /\ placed = <<>>
    /\ orders = <<>>
    /\ journal = <<>>
    /\ submitted = <<>>
    /\ reports = {}
    /\ bar_ticks = <<>>
    /\ tick_times = NoTicks
    /\ emitted = 0
    /\ advances = 0
    /\ \E p \in Prices, size \in Sizes, step \in Steps :
          scenario = [n |-> 0, first |-> p, size |-> size, step |-> step]

NextScenario ==
    \/ FeedTick
    \/ on_price_update

SpecScenario == InitScenario /\ [][NextScenario]_vars

----------------------------------------------------------------------------
(* The execution gate: TradingLogic, and IBClient.place_order *)

Symbols == {"AAPL", "MSFT"}
Quantities == {1, 2}
Signals == {"BUY", "SELL", NoSignal}
Statuses == {"Filled", "Cancelled"}

\* the side of a position and the (active, side) combination of the gate
Side(pos) == IF pos > 0 THEN "Long" ELSE IF pos < 0 THEN "Short" ELSE "Flat"
Combo(act, pos) == << IF act THEN "Active" ELSE "Inactive", Side(pos) >>

start_trading(sym, qty) ==
    /\ active' = TRUE
    /\ symbol' = sym
    /\ quantity' = qty
    /\ started' = [symbol |-> sym, quantity |-> qty,
                   quantities |-> started.quantities \cup {qty}]
    /\ visited' = visited \cup {Combo(TRUE, position)}
    /\ UNCHANGED << position, last_signal, clientVars, signal, tradeVars,
                    riskVars, connVars, feedGhost, scenario >>

\* mutant of stop_trading: stopping also drops the position
stop_trading_flattens ==
    /\ active' = FALSE
    /\ position' = 0
    /\ visited' = visited \cup {Combo(FALSE, 0)}
    /\ UNCHANGED << symbol, quantity, last_signal, started, clientVars, signal,
                    tradeVars, riskVars, connVars, feedGhost, scenario >>

stop_trading ==
    /\ active' = FALSE
    /\ visited' = visited \cup {Combo(FALSE, position)}
    /\ UNCHANGED << symbol, quantity, position, last_signal, started, clientVars,
                    signal, tradeVars, riskVars, connVars, feedGhost, scenario >>

\* get_current_price: the close of the last bar, 0 on an empty history
get_current_price(history) ==
    IF history # <<>> THEN history[Len(history)].close ELSE 0

\* the order id ib.placeOrder assigns: ids are handed out in sequence
NextOrderId == FirstOrderId + Len(submitted)

\* mutant of the return: the order id is not returned
ReturnedIdNever(accepted) == None

\* what place_order returns: the order id, or None when ib.placeOrder raised
ReturnedId(accepted) == IF accepted THEN NextOrderId ELSE None

\* mutant of the test of the returned id: any value counts as an order
TruthyAnything(order_id) == TRUE

\* `if order_id:`
Truthy(order_id) == order_id # None /\ order_id # 0

\* ib.placeOrder raised (no session, a refused request) instead of returning
Raised(accepted) == ~accepted

\* mutant of the except clause: nothing is caught
CaughtNothing(raised) == FALSE

\* `except Exception` around the body of place_order: whatever was raised
\* inside the try is caught there
Caught(raised) == raised

\* mutant of the order built: the quantity is not the one passed in
SubmittedOrderUnitQuantity(sym, qty, action, id) ==
    [symbol |-> sym, quantity |-> 1, action |-> action, order_id |-> id]

\* Stock(symbol, 'SMART', 'USD') and MarketOrder(action, quantity), as handed
\* to ib.placeOrder, with the id the broker gives the order
SubmittedOrder(sym, qty, action, id) ==
    [symbol |-> sym, quantity |-> qty, action |-> action, order_id |-> id]

\* place_order(sym, qty, action): the call is recorded; when ib.placeOrder
\* takes the order it is entered in self.orders and logged in the journal
\* (the journal's pnl field, computed from the broker's positions, is left out)
place_order(sym, qty, action, accepted) ==
    /\ placed' = Append(placed, [symbol |-> sym, quantity |-> qty, action |-> action,
                                 order_id |-> ReturnedId(accepted)])
    /\ IF accepted
         THEN /\ submitted' = Append(submitted,
                                     SubmittedOrder(sym, qty, action, NextOrderId))
              /\ orders' = [id \in DOMAIN orders \cup {NextOrderId} |->
                              IF id = NextOrderId
                                THEN [symbol |-> sym, quantity |-> qty,
                                      action |-> action, status |-> "SUBMITTED"]
                                ELSE orders[id]]
              /\ journal' = Append(journal, [symbol |-> sym, action |-> action,
                                             quantity |-> qty,
                                             price |-> get_current_price(price_data)])
         ELSE UNCHANGED << submitted, orders, journal >>

\* mutant of the activity test: the gate is never closed
GateClosedNever(act) == FALSE

\* `if not self.active: return`
GateClosed(act) == ~act

\* RiskManager: the limits and the checks on them
MaxPositionSize == 1000
MaxDailyLoss == 0 - 5000

Abs(x) == IF x < 0 THEN 0 - x ELSE x

check_position_limits(current_position, proposed_quantity) ==
    ~(Abs(current_position + proposed_quantity) > MaxPositionSize)

check_daily_loss_limit(current_pnl) == ~(current_pnl < MaxDailyLoss)

\* mutants of the position tests: a signal is acted on whatever the position;
\* a BUY is acted on only within the limits of the risk manager
BuyAllowedAlways(pos) == TRUE

BuyAllowedWithinLimits(pos) ==
    /\ pos <= 0
    /\ check_position_limits(pos, quantity)
    /\ check_daily_loss_limit(daily_pnl)

SellAllowedAlways(pos) == TRUE

\* the position tests of execute_signal
BuyAllowed(pos) == pos <= 0
SellAllowed(pos) == pos >= 0

\* the record of one execute_signal call: its arguments, the state it found,
\* and whether an exception left it
CallRecord(sig, escaped) ==
    [seq |-> call.seq + 1, signal |-> sig, position |-> position,
     active |-> active, bars |-> Len(price_data), error |-> escaped]

\* execute_signal(ib_client, sig); accepted tells whether ib.placeOrder takes
\* the order, should one be placed.  An exception that place_order lets
\* through ends the call before position and last_signal are touched.
execute_signal(sig, accepted) ==
    LET escaped == Raised(accepted) /\ ~Caught(Raised(accepted))
        taken == Truthy(ReturnedId(accepted)) /\ ~escaped
    IN
    /\ call.seq < MaxCalls
    /\ IF GateClosed(active)
         THEN /\ call' = CallRecord(sig, FALSE)
              /\ UNCHANGED << position, last_signal, placed, orders, journal,
                              submitted >>
         ELSE IF sig = "BUY" /\ BuyAllowed(position)
           THEN /\ call' = CallRecord(sig, escaped)
                /\ place_order(symbol, quantity, "BUY", accepted)
                /\ IF taken
                     THEN /\ position' = position + quantity
                          /\ last_signal' = sig
                     ELSE UNCHANGED << position, last_signal >>
         ELSE IF sig = "SELL" /\ SellAllowed(position)
           THEN /\ call' = CallRecord(sig, escaped)
                /\ place_order(symbol, quantity, "SELL", accepted)
                /\ IF taken
                     THEN /\ position' = position - quantity
                          /\ last_signal' = sig
                     ELSE UNCHANGED << position, last_signal >>
         ELSE /\ call' = CallRecord(sig, FALSE)
              /\ UNCHANGED << position, last_signal, placed, orders, journal,
                              submitted >>
    /\ visited' = visited \cup {Combo(active, position')}
    /\ UNCHANGED << active, symbol, quantity, started, reports, clientVars, signal,
                    riskVars, connVars, feedGhost, scenario >>

NextGate ==
    \/ \E sym \in Symbols, qty \in Quantities : start_trading(sym, qty)
    \/ stop_trading
    \/ \E sig \in Signals, accepted \in BOOLEAN : execute_signal(sig, accepted)

SpecGate == Init /\ [][NextGate]_vars

\* The broker reports on a submitted order some time after ib.placeOrder
\* returned: filled, or cancelled (a rejected order ends cancelled).  The
\* client subscribes no handler for it: the entry in self.orders keeps the
\* status SUBMITTED and the gate is not told.
ReportedIds == { r.order_id : r \in reports }

broker_report(id, status) ==
    /\ id \in { submitted[i].order_id : i \in 1..Len(submitted) }
    /\ id \notin ReportedIds
    /\ reports' = reports \cup {[order_id |-> id, status |-> status]}
    /\ UNCHANGED << clientVars, gateVars, gateGhost, riskVars, connVars, signal, call, placed, orders,
                    journal, submitted, feedGhost, scenario >>

NextBroker ==
    \/ NextGate
    \/ \E id \in FirstOrderId..(FirstOrderId + MaxCalls), status \in Statuses :
          broker_report(id, status)

SpecBroker == Init /\ [][NextBroker]_vars

----------------------------------------------------------------------------
(* The gate beside the risk manager *)

\* order sizes at and above the position limit, and daily results within and
\* beyond the loss limit
RiskQuantities == {MaxPositionSize, MaxPositionSize + 1}
Pnls == {MaxDailyLoss - 1, 0}

update_daily_pnl(pnl) ==
    /\ daily_pnl' = pnl
    /\ UNCHANGED << clientVars, gateVars, gateGhost, signal, tradeVars, feedGhost,
                    scenario, connVars >>

NextRisk ==
    \/ \E qty \in RiskQuantities : start_trading("AAPL", qty)
    \/ \E sig \in Signals, accepted \in BOOLEAN : execute_signal(sig, accepted)
    \/ \E pnl \in Pnls : update_daily_pnl(pnl)

SpecRisk == Init /\ [][NextRisk]_vars

----------------------------------------------------------------------------
(* The simulated feed, polled *)

\* update_simulated_data called d seconds after the step before, on any client
update_simulated_data_after(d) ==
    /\ advances < MaxAdvances
    /\ now' = now + d
    /\ advances' = advances + 1
    /\ IF simulation_mode /\ connected /\ SimBarDue(price_data, now + d)
         THEN AppendSimBarAt(now + d)
         ELSE UNCHANGED << price_data, sim_price >>
    /\ UNCHANGED << simulation_mode, connected, current_bar, handlers, pending,
                    gateVars, gateGhost, riskVars, connVars, signal, tradeVars,
                    bar_ticks, tick_times, emitted, scenario >>

NextSim ==
    \/ \E d \in Deltas : update_simulated_data_after(d)
    \/ \E ok \in BOOLEAN : subscribe_market_data(ok)
    \/ \E ok \in BOOLEAN : connect(ok)
    \/ disconnect

SpecSim == Init /\ [][NextSim]_vars

----------------------------------------------------------------------------
(* The connection: IBClient.connect in detail *)

ConnectionCooldown == 5         \* self._connection_cooldown, seconds
ConnectionRetries == 3          \* self._connection_retries
StartTime == 1000               \* time.time() when the client is constructed
MaxConnects == 3                \* calls of connect

\* seconds between two connect calls
ConnectDeltas == {2, 5}

\* what one attempt of the retry loop meets: ib.connect returned and
\* ib.isConnected() holds; it returned and isConnected() does not hold; it
\* raised ConnectionRefusedError; it raised another exception (a timeout)
AttemptOutcomes == {"connected", "not_connected", "refused", "error"}

\* mutant of the cooldown test: no call is throttled
ThrottledNever(current_time, last_attempt) == FALSE

\* the cooldown test
Throttled(current_time, last_attempt) ==
    (current_time - last_attempt) < ConnectionCooldown

RECURSIVE RetryLoopTrustsConnect(_, _)
\* mutant of the retry loop: ib.isConnected() is not asked
RetryLoopTrustsConnect(outcomes, attempt) ==
    IF attempt > ConnectionRetries
      THEN [success |-> FALSE, attempts |-> ConnectionRetries]
    ELSE IF outcomes[attempt] \in {"connected", "not_connected"}
      THEN [success |-> TRUE, attempts |-> attempt]
    ELSE IF attempt = ConnectionRetries
      THEN [success |-> FALSE, attempts |-> attempt]
    ELSE RetryLoopTrustsConnect(outcomes, attempt + 1)

RECURSIVE RetryLoop(_, _)
\* the retry loop from the given attempt on (attempts count from 1): success
\* at the first attempt that finds the session connected, failure at the last
\* attempt otherwise; the number of attempts made
RetryLoop(outcomes, attempt) ==
    IF attempt > ConnectionRetries
      THEN [success |-> FALSE, attempts |-> ConnectionRetries]
    ELSE IF outcomes[attempt] = "connected"
      THEN [success |-> TRUE, attempts |-> attempt]
    ELSE IF attempt = ConnectionRetries
      THEN [success |-> FALSE, attempts |-> attempt]
    ELSE RetryLoop(outcomes, attempt + 1)

\* the broker holds a session after the loop: the last attempt made is one
\* at which ib.isConnected() holds
SessionOpened(outcomes, attempts) ==
    attempts \in 1..ConnectionRetries /\ outcomes[attempts] = "connected"

\* connect(host, port, client_id), called d seconds after the step before;
\* port_ok is the result of _test_port_connection, outcomes what the attempts
\* of the retry loop meet.  The record of the call keeps what it returned and
\* did, and the number of broker sessions opened so far.
connect_call(d, port_ok, outcomes) ==
    LET current_time == now + d
        loop == RetryLoop(outcomes, 1)
        returned(success, throttled, tested, attempts, opened) ==
            [seq |-> conn_call.seq + 1, success |-> success,
             throttled |-> throttled, tested |-> tested, attempts |-> attempts,
             sessions |-> conn_call.sessions + opened]
    IN
    /\ conn_call.seq < MaxConnects
    /\ pending = <<>>
    /\ now' = current_time
    /\ IF simulation_mode
         THEN /\ connected' = TRUE
              /\ conn_call' = returned(TRUE, FALSE, FALSE, 0, 0)
              /\ UNCHANGED last_connection_attempt
         ELSE IF Throttled(current_time, last_connection_attempt)
           THEN /\ conn_call' = returned(FALSE, TRUE, FALSE, 0, 0)
                /\ UNCHANGED << connected, last_connection_attempt >>
         ELSE /\ last_connection_attempt' = current_time
              /\ IF connected
                   THEN /\ conn_call' = returned(TRUE, FALSE, FALSE, 0, 0)
                        /\ UNCHANGED connected
                   ELSE IF ~port_ok
                     THEN /\ conn_call' = returned(FALSE, FALSE, TRUE, 0, 0)
                          /\ UNCHANGED connected
                   ELSE /\ conn_call' = returned(loop.success, FALSE, TRUE,
                                                 loop.attempts,
                                                 IF SessionOpened(outcomes, loop.attempts)
                                                   THEN 1 ELSE 0)
                        /\ connected' = IF loop.success THEN TRUE ELSE connected
    /\ UNCHANGED << simulation_mode, price_data, current_bar, sim_price, handlers,
                    pending, gateVars, gateGhost, riskVars, signal, tradeVars,
                    feedGhost, scenario >>

\* a client just constructed, some time after the epoch of time.time()
InitConnect ==
    /\ simulation_mode \in BOOLEAN
    /\ connected = FALSE
    /\ price_data = <<>>
    /\ current_bar = EmptyBar
    /\ sim_price = SimStartPrice
    /\ handlers = 0
    /\ pending = <<>>
    /\ now = StartTime
    /\ InitGate
    /\ InitRest

NextConnect ==
    \/ \E d \in ConnectDeltas, port_ok \in BOOLEAN,
          outcomes \in [1..ConnectionRetries -> AttemptOutcomes] :
          connect_call(d, port_ok, outcomes)
    \/ disconnect

SpecConnect == InitConnect /\ [][NextConnect]_vars

----------------------------------------------------------------------------
(* The feed with unchecked ticks, and the pipeline of feed, evaluation and gate *)

\* trade.price and trade.size as the feed may deliver them: on_price_update
\* reads them unchecked
RawPrices == {0 - 1, 0, 98}
RawSizes == {0 - 1, 0, 1}

\* a live client that is connected and has subscribed once
InitSubscribed ==
    /\ simulation_mode = FALSE
    /\ connected = TRUE
    /\ handlers = 1
    /\ price_data = <<>>
    /\ current_bar = EmptyBar
    /\ sim_price = SimStartPrice
    /\ pending = <<>>
    /\ now = 0
    /\ InitGate
    /\ InitRest

NextInput ==
    \/ \E d \in Deltas, price \in RawPrices, size \in RawSizes :
          EmitTick(d, price, size)
    \/ on_price_update

SpecInput == InitSubscribed /\ [][NextInput]_vars

\* The operations of the pipeline as the source offers them: the handler runs on
\* every tick, calculate_signal and execute_signal run when a caller calls
\* them (no handler, and nothing in main.py, does), execute_signal with the
\* signal last calculated.
NextPipeline ==
    \/ \E d \in Deltas, price \in Prices, size \in Sizes : EmitTick(d, price, size)
    \/ on_price_update
    \/ CalcSignal
    \/ \E qty \in Quantities : start_trading("AAPL", qty)
    \/ \E accepted \in BOOLEAN : execute_signal(signal.value, accepted)

SpecPipeline == InitSubscribed /\ [][NextPipeline]_vars

----------------------------------------------------------------------------
(* Properties of the bar aggregator and the bar history *)

\* a step that is one call of on_price_update
IngestStep == pending # <<>> /\ pending' = Tail(pending)

BarOpen == current_bar.timestamp # None

IsPrefix(s, t) ==
    /\ Len(s) <= Len(t)
    /\ \A i \in 1..Len(s) : s[i] = t[i]

RECURSIVE SumSizes(_)
SumSizes(ticks) ==
    IF ticks = <<>> THEN 0 ELSE Head(ticks).size + SumSizes(Tail(ticks))

TickPrices(ticks) == { ticks[i].price : i \in 1..Len(ticks) }

\* bar b summarises the non-empty tick sequence ticks
Summarises(b, ticks) ==
    /\ b.open = ticks[1].price
    /\ b.close = ticks[Len(ticks)].price
    /\ b.high \in TickPrices(ticks) /\ \A x \in TickPrices(ticks) : x <= b.high
    /\ b.low \in TickPrices(ticks) /\ \A x \in TickPrices(ticks) : b.low <= x
    /\ b.volume = SumSizes(ticks)

\* C1 (as claimed): on every tick handed to on_price_update, if no bar is open
\* or the time elapsed since the current bar's start is at least the interval
\* (whatever the elapsed time), the open bar is appended to the history and a
\* new bar is opened from the tick; otherwise no bar is appended.
C1_SealsWheneverIntervalElapsed ==
    [][ IngestStep =>
          LET tick == Head(pending) IN
          IF (~BarOpen) \/ (now - current_bar.timestamp >= BarInterval)
            THEN /\ price_data' = IF BarOpen THEN Append(price_data, current_bar)
                                             ELSE price_data
                 /\ current_bar' = [open |-> tick.price, high |-> tick.price,
                                    low |-> tick.price, close |-> tick.price,
                                    volume |-> tick.size, timestamp |-> now]
            ELSE price_data' = price_data ]_vars

\* C2: every bar sealed by on_price_update summarises exactly the ticks
\* ingested while it was the current bar: open the first price, close the
\* last, high the maximum, low the minimum, volume the sum of the sizes.
C2_SealedBarSummarisesItsTicks ==
    [][ (IngestStep /\ Len(price_data') > Len(price_data)) =>
          /\ bar_ticks # <<>>
          /\ Summarises(price_data'[Len(price_data')], bar_ticks) ]_vars

\* a bar built from several ticks of different prices has been sealed
C2_Witness ==
    /\ ~simulation_mode
    /\ Len(price_data) >= 1
    /\ price_data[1].open # price_data[1].close
    /\ price_data[1].volume >= 3

BarOK(b) ==
    /\ b.low <= b.open /\ b.open <= b.high
    /\ b.low <= b.close /\ b.close <= b.high
    /\ b.volume >= 0

\* C3 (as claimed): every bar of the history, from live ticks or from the
\* simulated feed, and the current bar while open, has low <= open <= high,
\* low <= close <= high and volume >= 0.
C3_EveryBarWellFormed ==
    /\ \A i \in 1..Len(price_data) : BarOK(price_data[i])
    /\ BarOpen => BarOK(current_bar)

\* C4: the open current bar is never an element of the history; a bar enters
\* the history only on the tick that seals it, as the bar that was current, and
\* a tick that updates the current bar changes no bar of the history.
C4_CurrentBarNeverInHistory ==
    [][ /\ (current_bar'.timestamp # None) =>
              \A i \in 1..Len(price_data') : price_data'[i] # current_bar'
        /\ IngestStep =>
              /\ IsPrefix(price_data, price_data')
              /\ (price_data' # price_data) =>
                    /\ BarOpen
                    /\ price_data' = Append(price_data, current_bar)
                    /\ current_bar'.timestamp # current_bar.timestamp ]_vars

\* the current bar has been updated by a later tick while the history holds a bar
C4_Witness ==
    /\ Len(price_data) >= 1
    /\ BarOpen
    /\ Len(bar_ticks) >= 2

Chronological(history) ==
    \A i \in 1..Len(history), j \in 1..Len(history) :
        i <= j => history[i].timestamp <= history[j].timestamp

\* C5: the history is append-only and chronological: every step leaves the
\* old history as a prefix of the new one, and bar start times are
\* non-decreasing along it.
C5_AppendOnlyChronological ==
    [][ IsPrefix(price_data, price_data') /\ Chronological(price_data') ]_vars

\* a live history of two bars sealed at different times
C5_Witness ==
    /\ ~simulation_mode
    /\ Len(price_data) >= 2
    /\ price_data[1].timestamp < price_data[2].timestamp

\* the ticks handed to the aggregator so far have strictly increasing times
StrictTicks == ~simulation_mode /\ tick_times.n >= 1 /\ tick_times.strict

\* C6 (as claimed): for strictly increasing tick times the number of sealed
\* bars equals floor((last - first) / interval).  Gaps of a day or more are
\* left out here, so that the day-dropping of C1 plays no part.
C6_SealedCountEqualsFloor ==
    (StrictTicks /\ ~tick_times.daygap) =>
        Len(price_data) = (tick_times.last - tick_times.first) \div BarInterval

\* C6 (amended): for strictly increasing tick times the number of sealed bars
\* is at most floor((last - first) / interval).
C6_SealedCountAtMostFloor ==
    StrictTicks =>
        Len(price_data) <= (tick_times.last - tick_times.first) \div BarInterval

\* three ticks at increasing times, of which one sealed a bar
C6_Witness ==
    /\ StrictTicks
    /\ tick_times.n >= 3
    /\ Len(price_data) >= 1

----------------------------------------------------------------------------
(* Properties of the indicator evaluation *)

Finite(x) == x.den > 0

\* x > y for finite fractions
Above(x, y) == x.num * y.den > y.num * x.den

Evaluated == signal.bars # None

\* C8: calculate_signal returns none for every history of fewer than 50 bars
\* (49 among them); on exactly 50 bars both moving averages and the rate of
\* change are defined and the value returned is the one they determine.
C8_NoneBelowFiftyBars ==
    /\ (Evaluated /\ signal.bars < 50) => signal.value = NoSignal
    /\ signal.bars = 50 =>
          /\ Finite(signal.row.SMA20)
          /\ Finite(signal.row.SMA50)
          /\ Finite(signal.row.ROC)
          /\ signal.value \in {"BUY", "SELL", NoSignal}
          /\ signal.value = "BUY" => Above(signal.row.SMA20, signal.row.SMA50)
          /\ signal.value = "SELL" => Above(signal.row.SMA50, signal.row.SMA20)

\* calculate_signal has returned BUY on a history of exactly 50 bars
C8_Witness ==
    /\ signal.bars = 50
    /\ Len(price_data) = 50
    /\ signal.value = "BUY"

\* C9: the signal is BUY iff sma_short > sma_long and roc > 0, SELL iff
\* sma_short < sma_long and roc < 0, and none in every other case, equal
\* moving averages and roc = 0 among them.
C9_SignalRule ==
    (Evaluated /\ signal.bars >= 50) =>
        LET short == signal.row.SMA20
            long == signal.row.SMA50
            roc == signal.row.ROC
        IN  /\ Finite(short) /\ Finite(long) /\ Finite(roc)
            /\ signal.value = "BUY" <=> (Above(short, long) /\ roc.num > 0)
            /\ signal.value = "SELL" <=> (Above(long, short) /\ roc.num < 0)
            /\ signal.value = NoSignal <=>
                  ~ \/ Above(short, long) /\ roc.num > 0
                    \/ Above(long, short) /\ roc.num < 0

\* equal moving averages with a positive rate of change gave no signal
C9_Witness ==
    /\ Evaluated /\ signal.bars >= 50
    /\ ~Above(signal.row.SMA20, signal.row.SMA50)
    /\ ~Above(signal.row.SMA50, signal.row.SMA20)
    /\ signal.row.ROC.num > 0
    /\ signal.value = NoSignal

----------------------------------------------------------------------------
(* Properties of the end-to-end scenario *)

\* k ticks have been fed and handled
ScenarioDone(k) == scenario.n = k /\ pending = <<>>

\* C7 (as claimed): 60 ticks one second apart with rising prices seal exactly
\* one bar, whose open and low are the first price, and no signal is produced.
C7_SixtyTicksSealOneBar ==
    ScenarioDone(60) =>
        /\ Len(price_data) = 1
        /\ price_data[1].open = scenario.first
        /\ price_data[1].low = scenario.first
        /\ calculate_signal(price_data) = NoSignal

\* C7 (amended): 60 ticks one second apart with rising prices seal no bar:
\* they span 59 seconds and are all in the open current bar, whose open and
\* low are the first price; the 61st tick, one second later, seals that bar;
\* no signal is produced in either state.
C7_SixtyTicksSealNoBar ==
    /\ ScenarioDone(60) =>
          /\ price_data = <<>>
          /\ BarOpen
          /\ Len(bar_ticks) = 60
          /\ current_bar.open = scenario.first
          /\ current_bar.low = scenario.first
          /\ calculate_signal(price_data) = NoSignal
    /\ ScenarioDone(61) =>
          /\ Len(price_data) = 1
          /\ price_data[1].open = scenario.first
          /\ price_data[1].low = scenario.first
          /\ price_data[1].high > scenario.first
          /\ calculate_signal(price_data) = NoSignal

\* the 60 ticks have been fed and the bar they built spans a price rise
C7_Witness ==
    /\ ScenarioDone(60)
    /\ current_bar.high > current_bar.low
    /\ now = 59

----------------------------------------------------------------------------
(* Properties of the execution gate *)

\* a step that is one call of execute_signal
ExecuteStep == call'.seq = call.seq + 1

\* the step called place_order
PlacedOrder == Len(placed') = Len(placed) + 1

\* C10: while trading is active, execute_signal places an order for a BUY
\* signal iff position <= 0 and for a SELL signal iff position >= 0; a call
\* places at most one order, on the side of the signal.
C10_OrderIffPositionAllows ==
    [][ (ExecuteStep /\ active) =>
          /\ placed' = placed \/ PlacedOrder
          /\ call'.signal = "BUY" => (PlacedOrder <=> position <= 0)
          /\ call'.signal = "SELL" => (PlacedOrder <=> position >= 0)
          /\ call'.signal = NoSignal => ~PlacedOrder
          /\ PlacedOrder => placed'[Len(placed')].action = call'.signal ]_vars

\* a BUY signal arrived while the gate was active and long, and no order was
\* placed for it: the one order placed so far is the BUY that opened the position
C10_Witness ==
    /\ call.active /\ call.signal = "BUY" /\ call.position > 0
    /\ position > 0
    /\ Len(placed) = 1

\* the order handed to the broker by this step, when there is one
Submitted == Len(submitted') = Len(submitted) + 1
LastSubmitted == submitted'[Len(submitted')]

\* C11: as long as every start_trading call has passed the same quantity q,
\* position is one of -q, 0, +q (and 0 before any start_trading call).
C11_OneExposureOfOneOrderSize ==
    /\ started.quantities = {} => position = 0
    /\ \A q \in Quantities :
          started.quantities = {q} => position \in {0 - q, 0, q}

\* a SELL signal arrived while the gate was active and short by the one order
\* size used, and the position stayed at one order size
C11_Witness ==
    /\ started.quantities = {2}
    /\ call.active /\ call.signal = "SELL" /\ call.position = 0 - 2
    /\ position = 0 - 2

\* C12: while trading is not active, execute_signal with any signal and any
\* position submits no order and leaves position and last_signal unchanged.
C12_InactiveGateDoesNothing ==
    [][ (ExecuteStep /\ ~active) =>
          UNCHANGED << position, last_signal, placed, submitted, orders,
                       journal >> ]_vars

\* after a stop_trading with a long position held, a SELL signal was passed
\* to execute_signal and the position is still held
C12_Witness ==
    /\ ~call.active /\ call.signal = "SELL" /\ call.position > 0
    /\ ~active /\ position > 0
    /\ Len(submitted) = 1

\* C13: when place_order returns an order id, a BUY raises position by exactly
\* the quantity last passed to start_trading and a SELL lowers it by exactly
\* that quantity; when place_order returns None, or is not called, position is
\* unchanged.
C13_AcceptedOrderMovesPositionByQuantity ==
    [][ ExecuteStep =>
          IF PlacedOrder /\ placed'[Len(placed')].order_id # None
            THEN /\ Submitted
                 /\ LastSubmitted.order_id = placed'[Len(placed')].order_id
                 /\ call'.signal = "BUY" => position' = position + started.quantity
                 /\ call'.signal = "SELL" => position' = position - started.quantity
            ELSE position' = position ]_vars

\* a SELL of two was refused by the gateway and left the position flat, the
\* next one was accepted and made it short by two
C13_Witness ==
    /\ Len(placed) = 2
    /\ placed[1].order_id = None /\ placed[2].order_id # None
    /\ placed[2].action = "SELL"
    /\ position = 0 - 2

\* C14 (as claimed): position changes only in a step in which the broker
\* confirms a fill; no other step, the submission of an order among them,
\* changes it.
C14_PositionChangesOnlyOnFill ==
    [][ position' # position =>
          \E r \in reports' \ reports : r.status = "Filled" ]_vars

\* C15 (as claimed): no execute_signal step takes position from strictly
\* positive to strictly negative or from strictly negative to strictly
\* positive, whatever quantities start_trading was called with.
C15_NoSignFlipInOneExecution ==
    [][ ExecuteStep =>
          /\ ~(position > 0 /\ position' < 0)
          /\ ~(position < 0 /\ position' > 0) ]_vars

AllCombos == {"Active", "Inactive"} \X {"Flat", "Long", "Short"}

\* C16: the gate is always in one of the six combinations of {Active,
\* Inactive} x {Flat, Long, Short}; start_trading and stop_trading change the
\* activity only, an executed signal changes the side only, while active and
\* with an order submitted.  All six are visited from (Inactive, Flat).
C16_SixGateStates ==
    [][ LET c == Combo(active, position)
            d == Combo(active', position')
        IN  /\ d \in AllCombos
            /\ visited' \subseteq AllCombos
            /\ d # c =>
                 IF ExecuteStep
                   THEN /\ c[1] = "Active" /\ d[1] = "Active"
                        /\ Submitted
                   ELSE d[2] = c[2] ]_vars

\* one run of the gate, started with one order size throughout, has been in
\* all six combinations
C16_Witness ==
    /\ visited = AllCombos
    /\ started.quantities = {1}

\* C17: an execute_signal call submits at most one order, and the order it
\* submits carries the symbol and the quantity last passed to start_trading
\* and the side of the signal.
C17_OneOrderOfConfiguredSize ==
    [][ ExecuteStep =>
          /\ submitted' = submitted \/ Submitted
          /\ placed' = placed \/ PlacedOrder
          /\ IsPrefix(submitted, submitted')
          /\ Submitted =>
               /\ LastSubmitted.symbol = started.symbol
               /\ LastSubmitted.quantity = started.quantity
               /\ LastSubmitted.action = call'.signal ]_vars

\* two orders were submitted, for different symbols and different quantities
C17_Witness ==
    /\ Len(submitted) = 2
    /\ submitted[1].symbol # submitted[2].symbol
    /\ submitted[1].quantity = 1 /\ submitted[2].quantity = 2

\* C18: execute_signal completes normally for every signal, every position and
\* every outcome of the gateway: no exception leaves it, and it has either
\* submitted an order or changed nothing of the position, the last signal, the
\* orders and the journal.
C18_ExecutionNeverFails ==
    [][ ExecuteStep =>
          /\ call'.error = FALSE
          /\ \/ Submitted
             \/ UNCHANGED << position, last_signal, submitted, orders,
                             journal >> ]_vars

\* ib.placeOrder raised during an execute_signal call of the active gate, and
\* the call ended normally with nothing submitted
C18_Witness ==
    /\ call.active /\ call.signal = "BUY" /\ ~call.error
    /\ Len(placed) >= 1
    /\ placed[Len(placed)].order_id = None
    /\ submitted = <<>>

----------------------------------------------------------------------------
(* Properties of the unchecked feed and of the pipeline *)

InvalidTick(tick) == tick.price <= 0 \/ tick.size <= 0

\* C19 (as claimed): a tick with a non-positive price or a non-positive size
\* is rejected, and leaves the current bar and the bar history unchanged.
C19_InvalidTickRejected ==
    [][ (IngestStep /\ InvalidTick(Head(pending))) =>
          UNCHANGED << current_bar, price_data >> ]_vars

\* C20 (as claimed): a tick is aggregated only when the bars sealed so far
\* have been evaluated and decided on: calculate_signal and execute_signal
\* have run on the history as it is, before the next call of on_price_update.
C20_EvaluatedBeforeNextTick ==
    [][ (IngestStep /\ price_data # <<>>) =>
          /\ signal.bars = Len(price_data)
          /\ call.seq >= 1 /\ call.bars = Len(price_data) ]_vars

----------------------------------------------------------------------------
(* Further properties of the indicator evaluation *)

\* a step that is one call of calculate_signal
CalcStep == signal' # signal /\ signal'.bars # None

Recent(history, n) == SubSeq(history, Len(history) - n + 1, Len(history))

\* C26: on a history of at least 50 bars calculate_signal returns what it
\* returns on the most recent 50 bars alone, so two histories with the same
\* last 50 bars give the same signal.
C26_OnlyLastFiftyBarsCount ==
    (Evaluated /\ signal.bars = Len(price_data) /\ Len(price_data) >= MinBars) =>
        signal.value = calculate_signal(Recent(price_data, LongWindow))

\* a history of more than 50 bars, whose first bar differs from the later
\* ones, was evaluated to BUY
C26_Witness ==
    /\ Evaluated /\ signal.bars = Len(price_data)
    /\ Len(price_data) > LongWindow
    /\ ShapeOf(price_data[1]) # ShapeOf(price_data[2])
    /\ signal.value = "BUY"

----------------------------------------------------------------------------
(* Further properties of the execution gate and of the orders *)

\* the submitted orders the broker has reported filled
FilledOrders ==
    { i \in 1..Len(submitted) :
        [order_id |-> submitted[i].order_id, status |-> "Filled"] \in reports }

\* C22 (as claimed): the journal holds exactly one entry for every filled
\* order, with that order's symbol, side and quantity, and no entry for an
\* order that was not filled.
C22_JournalEntryPerFill ==
    /\ Len(journal) = Cardinality(FilledOrders)
    /\ \A i \in FilledOrders :
          \E j \in 1..Len(journal) :
              /\ journal[j].symbol = submitted[i].symbol
              /\ journal[j].action = submitted[i].action
              /\ journal[j].quantity = submitted[i].quantity

SignedQuantity(order) ==
    IF order.action = "BUY" THEN order.quantity ELSE 0 - order.quantity

RECURSIVE NetQuantity(_)
\* the net signed quantity of a sequence of orders
NetQuantity(ords) ==
    IF ords = <<>> THEN 0
    ELSE SignedQuantity(Head(ords)) + NetQuantity(Tail(ords))

RECURSIVE OrdersFor(_, _)
OrdersFor(ords, sym) ==
    IF ords = <<>> THEN <<>>
    ELSE IF Head(ords).symbol = sym
      THEN << Head(ords) >> \o OrdersFor(Tail(ords), sym)
      ELSE OrdersFor(Tail(ords), sym)

\* C25 (as claimed): position is the net signed quantity of the orders
\* executed for the symbol now held in self.symbol.
C25_PositionIsOfCurrentSymbol ==
    position = NetQuantity(OrdersFor(submitted, symbol))

----------------------------------------------------------------------------
(* Further properties of the feed *)

\* C24 (as claimed): however many subscriptions were made, a tick is
\* aggregated once: its first delivery adds its size to the volume of the
\* current bar, or opens a bar of that volume, and a further delivery of the
\* same tick changes neither the current bar nor the history.
C24_TickAggregatedOnce ==
    [][ IngestStep =>
          LET tick == Head(pending)
          IN  IF Len(pending) = handlers
                THEN IF current_bar'.timestamp # current_bar.timestamp
                       THEN current_bar'.volume = tick.size
                       ELSE current_bar'.volume = current_bar.volume + tick.size
                ELSE UNCHANGED << current_bar, price_data >> ]_vars

----------------------------------------------------------------------------
(* Properties of the gate beside the risk manager *)

\* a state in which a check of the risk manager would return False
RiskRefuses ==
    \/ ~check_position_limits(position, quantity)
    \/ ~check_daily_loss_limit(daily_pnl)

\* C27: the checks of the risk manager are not consulted: in a state where
\* check_position_limits(position, quantity) or check_daily_loss_limit would
\* return False, the active gate still places the order for a BUY at
\* position <= 0 and for a SELL at position >= 0.
C27_RiskChecksNotConsulted ==
    [][ (ExecuteStep /\ active /\ RiskRefuses) =>
          /\ (call'.signal = "BUY" /\ position <= 0) => PlacedOrder
          /\ (call'.signal = "SELL" /\ position >= 0) => PlacedOrder ]_vars

\* with the daily loss beyond its limit, a BUY above the position limit was
\* submitted from a flat position
C27_Witness ==
    /\ daily_pnl < MaxDailyLoss
    /\ call.active /\ call.signal = "BUY" /\ call.position = 0
    /\ Len(submitted) = 1
    /\ position > MaxPositionSize

----------------------------------------------------------------------------
(* Properties of the connection *)

\* a step that is one call of connect
ConnectStep == conn_call'.seq = conn_call.seq + 1

\* C28: a connect call on a live client returns success or failure after at
\* most 3 attempts; the connected flag becomes true only in a call that
\* succeeded and in which the broker reported the session connected, and a
\* call that returns failure leaves the flag as it was.
C28_ConnectEndsWithinThreeAttempts ==
    [][ (ConnectStep /\ ~simulation_mode) =>
          /\ conn_call'.success \in BOOLEAN
          /\ conn_call'.attempts <= ConnectionRetries
          /\ (connected' /\ ~connected) =>
                /\ conn_call'.success
                /\ conn_call'.attempts >= 1
                /\ conn_call'.sessions = conn_call.sessions + 1
          /\ ~conn_call'.success => connected' = connected
          /\ connected => connected' ]_vars

\* a call that found the session connected at its third attempt only
C28_Witness ==
    /\ ~simulation_mode
    /\ connected
    /\ conn_call.success /\ conn_call.attempts = ConnectionRetries

\* the throttled call: failure, nothing tested, no attempt, timer not reset
ThrottledCall ==
    /\ ~conn_call'.success
    /\ conn_call'.throttled /\ ~conn_call'.tested /\ conn_call'.attempts = 0
    /\ conn_call'.sessions = conn_call.sessions
    /\ UNCHANGED << connected, last_connection_attempt >>

\* the call on a connected client: success, no second session
AlreadyConnectedCall ==
    /\ conn_call'.success
    /\ ~conn_call'.tested /\ conn_call'.attempts = 0
    /\ conn_call'.sessions = conn_call.sessions
    /\ connected'

\* C29 (as claimed): on a live client a connect call made less than 5 seconds
\* after the previous call that was not throttled returns failure without
\* testing the port or contacting the broker and without resetting the timer;
\* and a call on a connected client returns success without a second session,
\* whenever it is made.
C29_ThrottledOrAlreadyConnected ==
    [][ (ConnectStep /\ ~simulation_mode) =>
          /\ (now' - last_connection_attempt < ConnectionCooldown) => ThrottledCall
          /\ connected => AlreadyConnectedCall ]_vars

\* C29 (amended): a call made less than 5 seconds after the previous call that
\* was not throttled returns failure without testing the port or contacting
\* the broker and without resetting the timer, on a connected client too; a
\* call on a connected client made 5 seconds or more after it returns success
\* without a second session, and resets the timer.
C29_ThrottleComesFirst ==
    [][ (ConnectStep /\ ~simulation_mode) =>
          IF now' - last_connection_attempt < ConnectionCooldown
            THEN ThrottledCall
            ELSE /\ last_connection_attempt' = now'
                 /\ ~conn_call'.throttled
                 /\ connected => AlreadyConnectedCall ]_vars

\* a call on a connected live client was throttled: one session, failure returned
C29_Witness ==
    /\ ~simulation_mode
    /\ connected
    /\ conn_call.throttled /\ ~conn_call.success
    /\ conn_call.sessions = 1

----------------------------------------------------------------------------
(* Properties of the simulated feed *)

\* a step that is one call of update_simulated_data
UpdateStep == advances' = advances + 1

\* a step that is one call of subscribe_market_data on a simulated client
SeedStep == simulation_mode /\ UNCHANGED now /\ UNCHANGED connected

\* the step appends exactly one bar
AppendsOne ==
    /\ Len(price_data') = Len(price_data) + 1
    /\ SubSeq(price_data', 1, Len(price_data)) = price_data

\* at least 60 seconds lie between the last bar's timestamp and the call
SimElapsed ==
    IF price_data = <<>>
      THEN TRUE
      ELSE now' - price_data[Len(price_data)].timestamp >= BarInterval

\* C30: on a connected simulated client update_simulated_data appends exactly
\* one bar when the history is empty or at least 60 seconds have elapsed since
\* the last bar's timestamp, a day or more included, and nothing otherwise; it
\* appends nothing on a client that is not connected or not simulated; and
\* subscribe_market_data on a simulated client appends a bar only to an empty
\* history.
C30_SimBarWheneverIntervalElapsed ==
    [][ /\ UpdateStep =>
            IF simulation_mode /\ connected /\ SimElapsed
              THEN AppendsOne
              ELSE UNCHANGED price_data
        /\ (SeedStep /\ price_data # <<>>) => UNCHANGED price_data ]_vars

====
